---- MODULE Spec2Model ----
(***************************************************************************)
(* A model of the retrieval-and-answer core of the repository:             *)
(*   - VectorStore (src/vector_store.py): an in-memory FAISS index with a  *)
(*     parallel metadata list, persisted as two files, document.index and  *)
(*     document.metadata;                                                  *)
(*   - RAGPipeline.answer_query (src/rag_pipeline.py): classification,     *)
(*     retrieval, the task branch and the extract-then-enhance branch.     *)
(*                                                                         *)
(* One server process owns one store.  The process runs one call at a time *)
(* (the handlers of src/main.py contain no await), so a call is a sequence *)
(* of steps that only a crash of the process can interrupt.  A crash loses *)
(* the memory and keeps the two files as they are at that moment; the next *)
(* construction of a VectorStore on the same directory runs _load.         *)
(*                                                                         *)
(* Python lists are modelled as sequences; list positions are 0-based in   *)
(* the code and are kept 0-based wherever the code computes with them.     *)
(* Strings are sequences of characters.                                    *)
(* Confidence scores are in hundredths (0.15 is 15).                       *)
(***************************************************************************)
EXTENDS Integers, Sequences, FiniteSets, TLC

VARIABLES
    index,          \* self.index: the vectors of the FAISS index, in insertion order
    metadata,       \* self.metadata: list of {source, content}
    index_file,     \* the file at self.index_path
    metadata_file,  \* the file at self.metadata_path
    pc,             \* position of the process inside a VectorStore call
    batch,          \* arguments and embeddings of the add_documents call in progress
    call,           \* the construction or add_documents call most recently started
    add_raised,     \* whether an add_documents call on this instance has raised
    qpc,            \* position of the process inside RAGPipeline.answer_query
    aq              \* arguments, locals and outcome of the answer_query call in progress

store_vars == <<index, metadata, index_file, metadata_file, pc, batch, call, add_raised>>
answer_vars == <<qpc, aq>>
vars == <<store_vars, answer_vars>>

(***************************************************************************)
(* Bounds of the model.                                                    *)
(***************************************************************************)
MaxVectors == 3     \* no add is started that would take the index or the metadata beyond this
MaxBatch == 2       \* longest list of chunks handed to one add_documents call



(***************************************************************************)
(* The queries asked: one with a keyword in another case, one with no       *)
(* keyword, one with a keyword inside a longer word.                       *)
(***************************************************************************)
(***************************************************************************)
(* Text.  A string is a sequence of one-character strings.  AsciiOrder     *)
(* lists the characters the model uses in the order of their code points,  *)
(* which is the order Python compares strings by.                          *)
(***************************************************************************)
AsciiOrder ==
    <<" ", "0", "1", "2", "3", "4", "5", "6", "7", "8", "9", "A", "B", "C",
      "D", "E", "F", "G", "H", "I", "J", "K", "L", "M", "N", "O", "P", "Q",
      "R", "S", "T", "U", "V", "W", "X", "Y", "Z", "_", "a", "b", "c", "d",
      "e", "f", "g", "h", "i", "j", "k", "l", "m", "n", "o", "p", "q", "r",
      "s", "t", "u", "v", "w", "x", "y", "z">>

Ord(c) == CHOOSE i \in 1..Len(AsciiOrder) : AsciiOrder[i] = c

\* str.lower() on one character: "A".."Z" are at 12..37, "a".."z" at 39..64
LowerChar(c) == IF Ord(c) >= 12 /\ Ord(c) <= 37 THEN AsciiOrder[Ord(c) + 27] ELSE c
Lower(str) == [i \in 1..Len(str) |-> LowerChar(str[i])]

\* `needle in hay`
Contains(hay, needle) ==
    \E off \in 0..(Len(hay) - Len(needle)) : SubSeq(hay, off + 1, off + Len(needle)) = needle

\* a < b for two strings, as Python compares them
RECURSIVE StrLess(_, _)
StrLess(a, b) ==
    IF b = <<>> THEN FALSE
    ELSE IF a = <<>> THEN TRUE
    ELSE IF a[1] = b[1] THEN StrLess(Tail(a), Tail(b))
    ELSE Ord(a[1]) < Ord(b[1])

\* str(n) for n >= 0
RECURSIVE Digits(_)
Digits(n) == IF n < 10 THEN <<AsciiOrder[n + 2]>> ELSE Digits(n \div 10) \o <<AsciiOrder[(n % 10) + 2]>>

\* sep.join(parts)
RECURSIVE Join(_, _)
Join(sep, parts) ==
    IF parts = <<>> THEN <<>>
    ELSE IF Len(parts) = 1 THEN parts[1]
    ELSE parts[1] \o sep \o Join(sep, Tail(parts))

\* Chunk texts, as process_document hands them over.
ChunkUpi == <<"u", "p", "i", " ", "o", "k">>
ChunkFee == <<"f", "e", "e", " ", "d", "u", "e">>
Chunks == {ChunkUpi, ChunkFee}

QSummarize == <<"S", "u", "m", "m", "a", "r", "i", "z", "e", " ", "i", "t">>
QWhat == <<"w", "h", "a", "t", " ", "i", "s", " ", "t", "h", "e", " ", "r", "a", "t", "e">>
QStylist == <<"a", " ", "s", "t", "y", "l", "i", "s", "t">>
Queries == {QSummarize, QWhat, QStylist}

Doc1 == <<"d", "o", "c", "1">>
Doc2 == <<"d", "o", "c", "2">>
Filenames == {Doc1, Doc2}

\* The documents uploaded: a file name and the chunks its text splits into.
\* doc1 reads upi, fee, upi, ... and doc2 reads fee, fee, upi, upi, ...;
\* an upload hands over the first n chunks of one of them, n <= MaxBatch.
ChunkOf(filename, i) ==
    IF filename = Doc1
    THEN (IF i % 2 = 1 THEN ChunkUpi ELSE ChunkFee)
    ELSE (IF (i - 1) % 4 < 2 THEN ChunkFee ELSE ChunkUpi)

Uploads ==
    {[filename |-> f, chunks |-> [i \in 1..n |-> ChunkOf(f, i)]] :
        f \in Filenames, n \in 0..MaxBatch}

(***************************************************************************)
(* The embedding capability (SentenceTransformer.encode): a fixed function *)
(* from text to a vector of dimension 2, given as a table.                 *)
(***************************************************************************)
Encode(text) ==
    CASE text = ChunkUpi   -> <<0, 0>>
      [] text = ChunkFee   -> <<2, 0>>
      [] text = QSummarize -> <<0, 1>>
      [] text = QWhat      -> <<3, 0>>
      [] text = QStylist   -> <<1, 0>>

EncodeAll(texts) == [i \in 1..Len(texts) |-> Encode(texts[i])]

(***************************************************************************)
(* faiss.IndexFlatL2.search(q, k): the labels (0-based positions) of the k *)
(* stored vectors nearest to q by squared L2 distance, nearest first, and  *)
(* -1 in every slot beyond the number of stored vectors.  Vectors at equal *)
(* distance are taken in insertion order.                                  *)
(***************************************************************************)
L2(u, v) == (u[1] - v[1]) * (u[1] - v[1]) + (u[2] - v[2]) * (u[2] - v[2])

FaissSearch(vecs, q, k) ==
    LET n == Len(vecs)
        dist == [i \in 1..n |-> L2(vecs[i], q)]
        \* how many stored vectors come before the i-th in the ranking
        before == [i \in 1..n |->
                     Cardinality({j \in 1..n : dist[j] < dist[i] \/ (dist[j] = dist[i] /\ j < i)})]
    IN  [r \in 1..k |->
            IF r <= n THEN (CHOOSE i \in 1..n : before[i] = r - 1) - 1 ELSE -1]

(***************************************************************************)
(* Python list indexing with a 0-based position i: a negative i counts     *)
(* from the end; a position outside -len..len-1 raises IndexError.         *)
(***************************************************************************)
InRange(list, i) == -Len(list) <= i /\ i < Len(list)
PyItem(list, i) == IF i >= 0 THEN list[i + 1] ELSE list[Len(list) + i + 1]

(***************************************************************************)
(* VectorStore.search(query, k) on a store holding idx and meta.           *)
(* encode_ok says whether the embedding capability returns for the query.  *)
(* The result: the list returned, whether encode was called, what raised.  *)
(***************************************************************************)
SearchResult(docs, encoded, err) == [docs |-> docs, encoded |-> encoded, err |-> err]

\* `i < len(self.metadata)`: the test that keeps a label
Keeps(meta, i) == i < Len(meta)

\* A variant of search that embeds the query before it looks at the index.
SearchEncodesFirst(idx, meta, query, k, encode_ok) ==
    IF ~encode_ok
    THEN SearchResult(<<>>, TRUE, "EmbeddingError")
    ELSE IF Len(idx) = 0
    THEN SearchResult(<<>>, TRUE, "none")
    ELSE LET labels == FaissSearch(idx, Encode(query), k)
             kept == SelectSeq(labels, LAMBDA i : Keeps(meta, i))
         IN  IF \E r \in 1..Len(kept) : ~InRange(meta, kept[r])
             THEN SearchResult(<<>>, TRUE, "IndexError")
             ELSE SearchResult([r \in 1..Len(kept) |-> PyItem(meta, kept[r])], TRUE, "none")

Search(idx, meta, query, k, encode_ok) ==
    IF Len(idx) = 0
    THEN SearchResult(<<>>, FALSE, "none")
    ELSE IF ~encode_ok
    THEN SearchResult(<<>>, TRUE, "EmbeddingError")
    ELSE LET labels == FaissSearch(idx, Encode(query), k)
             kept == SelectSeq(labels, LAMBDA i : Keeps(meta, i))
         IN  IF \E r \in 1..Len(kept) : ~InRange(meta, kept[r])
             THEN SearchResult(<<>>, TRUE, "IndexError")
             ELSE SearchResult([r \in 1..Len(kept) |-> PyItem(meta, kept[r])], TRUE, "none")

(***************************************************************************)
(* Files.  A file is missing, present but unreadable (truncated or         *)
(* partially written), or holds the data of the last complete write.       *)
(***************************************************************************)
Missing == [exists |-> FALSE, ok |-> FALSE, data |-> <<>>]
Corrupt == [exists |-> TRUE, ok |-> FALSE, data |-> <<>>]
Written(d) == [exists |-> TRUE, ok |-> TRUE, data |-> d]

NoBatch == [chunks |-> <<>>, filename |-> <<>>, embeddings |-> <<>>]

\* A call of the store: op is "construct", "add" or "search"; err names what
\* it raised; a search also records its arguments and what it did.
NoSearch == [query |-> <<>>, k |-> 0, docs |-> <<>>, encoded |-> FALSE]
Running(op) == [op |-> op, done |-> FALSE, err |-> "none", search |-> NoSearch]
Returned(op) == [op |-> op, done |-> TRUE, err |-> "none", search |-> NoSearch]
Raised(op, err) == [op |-> op, done |-> TRUE, err |-> err, search |-> NoSearch]
Searched(query, k, r) ==
    [op |-> "search", done |-> TRUE, err |-> r.err,
     search |-> [query |-> query, k |-> k, docs |-> r.docs, encoded |-> r.encoded]]

(***************************************************************************)
(* RAGPipeline: its tables, and the locals of one answer_query call.       *)
(***************************************************************************)
K_TASK == 5
K_QA == 3

TASK_KEYWORDS ==
    << <<"l", "i", "s", "t">>,
       <<"s", "u", "m", "m", "a", "r", "i", "z", "e">>,
       <<"e", "x", "t", "r", "a", "c", "t">>,
       <<"s", "h", "o", "w", " ", "m", "e", " ", "a", "l", "l">>,
       <<"w", "h", "a", "t", " ", "a", "r", "e", " ", "a", "l", "l">>,
       <<"f", "i", "n", "d", " ", "a", "l", "l">> >>

\* _is_task_oriented: any(keyword in query.lower() for keyword in TASK_KEYWORDS)
IsTaskOriented(query) ==
    \E n \in 1..Len(TASK_KEYWORDS) : Contains(Lower(query), TASK_KEYWORDS[n])

ROLE_ENTITY_MAPPING(role) ==
    CASE role = "Product Lead"       -> {"ORG", "DATE", "MONEY", "PERCENT", "PRODUCT"}
      [] role = "Tech Lead"          -> {"ORG", "PRODUCT", "DATE", "CARDINAL", "QUANTITY"}
      [] role = "Compliance Lead"    -> {"PERSON", "ORG", "GPE", "LAW", "DATE", "MONEY"}
      [] role = "Bank Alliance Lead" -> {"ORG", "LAW", "DATE", "PERCENT", "GPE"}
      [] OTHER                       -> {}     \* .get(role, [])

\* Confidence in hundredths.
CONFIDENCE_GATE == 15       \* `if confidence < 0.15`
TASK_CONFIDENCE == 95       \* `confidence = 0.95`

\* The roles asked for, the last of them not in the mapping.
Roles == {"Product Lead", "Compliance Lead", "Intern"}

\* What the capabilities may return: the scores of the question-answering
\* model, the entity lists of the NER model, the texts of the generator.
Scores == {0, 14, 15, 16, 100}
Acme == [word |-> "Acme Corp", entity_group |-> "ORG"]
JohnDoe == [word |-> "John Doe", entity_group |-> "PERSON"]
NerOutputs == {<<>>, <<Acme, JohnDoe>>, <<Acme, Acme>>}
GeneratedTexts == {"generated text"}

NO_INFORMATION == "I couldn't find any relevant information"
LOW_CONFIDENCE == "I found some related information, but I am not confident enough"
ERROR_MESSAGE == "I encountered an error while processing your request"

AnswerResult(text, sources, confidence) ==
    [text |-> text, sources |-> sources, confidence |-> confidence]
NoResult == AnswerResult("", <<>>, 0)

NoQuery ==
    [query |-> <<>>, role |-> "", k_docs |-> 0, docs |-> <<>>, context |-> <<>>,
     sources |-> <<>>, raw_answer |-> <<>>, confidence |-> 0, key_entities |-> <<>>,
     prompt |-> "", final_answer |-> "", calls |-> <<>>,
     qa_score |-> 0, ner_results |-> <<>>, failed |-> "none",
     returned |-> FALSE, raised |-> "none", result |-> NoResult]

\* sorted(list(set(labels))): the distinct labels in ascending order
RECURSIVE SortedSet(_)
SortedSet(S) ==
    IF S = {} THEN <<>>
    ELSE LET least == CHOOSE x \in S : \A y \in S \ {x} : StrLess(x, y)
         IN  <<least>> \o SortedSet(S \ {least})

\* A variant that lists the source of every retrieved chunk in rank order.
SourcesInRankOrder(docs) == [i \in 1..Len(docs) |-> docs[i].source]

Sources(docs) == SortedSet({docs[i].source : i \in 1..Len(docs)})
Context(docs) == Join(<<" ">>, [i \in 1..Len(docs) |-> docs[i].content])

\* A variant that tests the keywords against the query as typed.
KDocsCaseSensitive(query) ==
    IF \E n \in 1..Len(TASK_KEYWORDS) : Contains(query, TASK_KEYWORDS[n]) THEN K_TASK ELSE K_QA

\* k_docs = 5 if self._is_task_oriented(query) else 3
KDocs(query) == IF IsTaskOriented(query) THEN K_TASK ELSE K_QA

\* A variant of the gate that also stops a confidence equal to the threshold.
BelowGateInclusive(confidence) == confidence <= CONFIDENCE_GATE

\* `if confidence < 0.15`
BelowGate(confidence) == confidence < CONFIDENCE_GATE

\* A variant that keeps every tagged entity, whatever the role.
RoleEntitiesUnfiltered(ner_results, role) ==
    {<<ner_results[i].word, ner_results[i].entity_group>> : i \in 1..Len(ner_results)}

\* f"{entity['word']} ({entity['entity_group']})" for the entities whose group
\* the role cares about, as a set
RoleEntities(ner_results, role) ==
    {<<ner_results[i].word, ner_results[i].entity_group>> :
        i \in {j \in 1..Len(ner_results) : ner_results[j].entity_group \in ROLE_ENTITY_MAPPING(role)}}

\* The text of f"{word} ({group})", as its pieces: word, " (", group, ")".
FormatEntity(pair) == <<pair[1], " (", pair[2], ")">>

\* ", ".join(role_specific_entities) if role_specific_entities else "None provided"
KeyEntitiesStr(listed) ==
    IF listed = <<>> THEN <<"None provided">>
    ELSE Join(<<", ">>, [i \in 1..Len(listed) |-> FormatEntity(listed[i])])

\* the orders in which list(set(...)) may enumerate a set
Enumerations(S) ==
    {seq \in [1..Cardinality(S) -> S] : \A a, b \in 1..Cardinality(S) : a # b => seq[a] # seq[b]}

(***************************************************************************)
(* VectorStore._load: what construction leaves in self.index and           *)
(* self.metadata.  self.metadata is [] before _load runs (__init__), and   *)
(* `raised` tells whether an exception leaves _load.                       *)
(***************************************************************************)
EmptyStore == [index |-> <<>>, metadata |-> <<>>, raised |-> FALSE]

\* A variant of _load whose except branch resets the metadata only.
LoadKeepsIndex(ifile, mfile) ==
    IF ifile.exists /\ mfile.exists
    THEN IF ~ifile.ok
         THEN EmptyStore
         ELSE IF ~mfile.ok
              THEN [index |-> ifile.data, metadata |-> <<>>, raised |-> FALSE]
              ELSE [index |-> ifile.data, metadata |-> mfile.data, raised |-> FALSE]
    ELSE EmptyStore

\* A variant of _load that reads the metadata and starts a new index.
LoadNewIndex(ifile, mfile) ==
    IF ifile.exists /\ mfile.exists
    THEN IF ~ifile.ok \/ ~mfile.ok
         THEN EmptyStore
         ELSE [index |-> <<>>, metadata |-> mfile.data, raised |-> FALSE]
    ELSE EmptyStore

Load(ifile, mfile) ==
    IF ifile.exists /\ mfile.exists
    THEN IF ~ifile.ok
         THEN EmptyStore    \* read_index raises: the except branch
         ELSE IF ~mfile.ok
              THEN EmptyStore   \* pickle.load raises after self.index was set: except resets both
              \* both reads succeed; nothing compares the two lengths
              ELSE [index |-> ifile.data, metadata |-> mfile.data, raised |-> FALSE]
    ELSE EmptyStore         \* a new IndexFlatL2; self.metadata is still []

Init ==
    /\ index = <<>>
    /\ metadata = <<>>
    /\ index_file = Missing
    /\ metadata_file = Missing
    /\ pc = "idle"
    /\ batch = NoBatch
    /\ call = Returned("construct")
    /\ add_raised = FALSE
    /\ qpc = "none"
    /\ aq = NoQuery

(***************************************************************************)
(* VectorStore.add_documents(chunks, filename), in the order of the code:  *)
(*   encode the whole batch; self.index.add; the metadata loop; _save,     *)
(*   which is write_index, then open(metadata_path, "wb"), then dump.      *)
(***************************************************************************)
\* The metadata entries the loop appends for `chunks` to a list `meta`:
\* the k-th appended entry is labelled with len(self.metadata) at that time.
\* f"{filename}_chunk_{n}"
SourceLabel(filename, n) == filename \o <<"_", "c", "h", "u", "n", "k", "_">> \o Digits(n)

\* A variant that numbers a chunk by its position within the batch.
NewMetadataBatchPosition(meta, chunks, filename) ==
    [i \in 1..Len(chunks) |->
        [source |-> SourceLabel(filename, i - 1), content |-> chunks[i]]]

NewMetadata(meta, chunks, filename) ==
    [i \in 1..Len(chunks) |->
        [source |-> SourceLabel(filename, Len(meta) + i - 1), content |-> chunks[i]]]

\* A variant that embeds and inserts chunk by chunk: the chunks before the
\* failing one are in the index when the call raises.
IndexAfterEncodeErrorPartial(idx, chunks, failed_chunk) ==
    idx \o EncodeAll(SubSeq(chunks, 1, failed_chunk - 1))

\* What the index holds when encode raises for some chunk of the batch:
\* encode runs on the whole batch before self.index.add, so nothing was added.
IndexAfterEncodeError(idx, chunks, failed_chunk) == idx

\* The adds the model starts: the batch fits the bound on both lists.
Fits(chunks) ==
    /\ Len(index) + Len(chunks) <= MaxVectors
    /\ Len(metadata) + Len(chunks) <= MaxVectors

\* `if not chunks: return`
AddEmpty ==
    /\ pc = "idle" /\ qpc = "none"
    /\ call' = Returned("add")
    /\ UNCHANGED <<index, metadata, index_file, metadata_file, pc, batch, add_raised>>
    /\ UNCHANGED answer_vars

\* encode raises at one of the chunks: the call raises
AddEncodeRaises ==
    /\ pc = "idle" /\ qpc = "none"
    /\ \E up \in Uploads, failed_chunk \in 1..MaxBatch :
          /\ failed_chunk <= Len(up.chunks)
          /\ Fits(up.chunks)
          /\ index' = IndexAfterEncodeError(index, up.chunks, failed_chunk)
    /\ call' = Raised("add", "EmbeddingError")
    /\ add_raised' = TRUE
    /\ UNCHANGED <<metadata, index_file, metadata_file, pc, batch>>
    /\ UNCHANGED answer_vars

\* encode returns the embeddings of the batch
AddEncode ==
    /\ pc = "idle" /\ qpc = "none"
    /\ \E up \in Uploads :
          /\ up.chunks # <<>>
          /\ Fits(up.chunks)
          /\ batch' = [chunks |-> up.chunks, filename |-> up.filename,
                       embeddings |-> EncodeAll(up.chunks)]
    /\ pc' = "index_add"
    /\ call' = Running("add")
    /\ UNCHANGED <<index, metadata, index_file, metadata_file, add_raised>>
    /\ UNCHANGED answer_vars

\* self.index.add(embeddings_np)
IndexAdd ==
    /\ pc = "index_add"
    /\ index' = index \o batch.embeddings
    /\ pc' = "metadata_append"
    /\ UNCHANGED <<metadata, index_file, metadata_file, batch, call, add_raised>>
    /\ UNCHANGED answer_vars

\* for i, chunk in enumerate(chunks): self.metadata.append(...)
MetadataAppend ==
    /\ pc = "metadata_append"
    /\ metadata' = metadata \o NewMetadata(metadata, batch.chunks, batch.filename)
    /\ pc' = "write_index"
    /\ UNCHANGED <<index, index_file, metadata_file, batch, call, add_raised>>
    /\ UNCHANGED answer_vars

\* the call raises out of _save: nothing in add_documents catches it
SaveRaises ==
    /\ pc' = "idle"
    /\ batch' = NoBatch
    /\ call' = Raised("add", "PersistenceError")
    /\ add_raised' = TRUE
    /\ UNCHANGED <<index, metadata>>

\* faiss.write_index(self.index, self.index_path)
WriteIndex ==
    /\ pc = "write_index"
    /\ index_file' = Written(index)
    /\ pc' = "open_metadata"
    /\ UNCHANGED <<index, metadata, metadata_file, batch, call, add_raised>>
    /\ UNCHANGED answer_vars

\* write_index fails: before touching the file, or leaving it partially written
WriteIndexRaises ==
    /\ pc = "write_index"
    /\ index_file' \in {index_file, Corrupt}
    /\ UNCHANGED metadata_file
    /\ SaveRaises
    /\ UNCHANGED answer_vars

\* open(self.metadata_path, "wb") truncates the file
OpenMetadata ==
    /\ pc = "open_metadata"
    /\ metadata_file' = Corrupt
    /\ pc' = "dump_metadata"
    /\ UNCHANGED <<index, metadata, index_file, batch, call, add_raised>>
    /\ UNCHANGED answer_vars

\* open fails: the metadata file is as it was
OpenMetadataRaises ==
    /\ pc = "open_metadata"
    /\ UNCHANGED <<index_file, metadata_file>>
    /\ SaveRaises
    /\ UNCHANGED answer_vars

\* pickle.dump(self.metadata, f), and the file is closed
DumpMetadata ==
    /\ pc = "dump_metadata"
    /\ metadata_file' = Written(metadata)
    /\ pc' = "idle"
    /\ batch' = NoBatch
    /\ call' = Returned("add")
    /\ UNCHANGED <<index, metadata, index_file, add_raised>>
    /\ UNCHANGED answer_vars

\* pickle.dump fails part-way: the file stays truncated or partial
DumpMetadataRaises ==
    /\ pc = "dump_metadata"
    /\ metadata_file' = Corrupt
    /\ UNCHANGED index_file
    /\ SaveRaises
    /\ UNCHANGED answer_vars

(***************************************************************************)
(* The process dies (at any point), and a VectorStore is constructed again *)
(* on the same directory.                                                  *)
(***************************************************************************)
Crash ==
    /\ pc # "down"
    /\ pc' = "down"
    /\ index' = <<>>
    /\ metadata' = <<>>
    /\ batch' = NoBatch
    \* a write_index in progress may leave a partial file
    /\ index_file' \in IF pc = "write_index" THEN {index_file, Corrupt} ELSE {index_file}
    /\ call' = Running("construct")
    /\ add_raised' = FALSE
    /\ UNCHANGED metadata_file
    /\ qpc' = "none"
    /\ aq' = NoQuery

\* While the process is down, a file of the directory is lost or damaged.
Damage ==
    /\ pc = "down"
    /\ \/ index_file' \in {Missing, Corrupt} /\ UNCHANGED metadata_file
       \/ metadata_file' \in {Missing, Corrupt} /\ UNCHANGED index_file
    /\ UNCHANGED <<index, metadata, pc, batch, call, add_raised>>
    /\ UNCHANGED answer_vars

\* VectorStore.__init__: self.metadata = [], then self._load()
Construct ==
    /\ pc = "down"
    /\ LET loaded == Load(index_file, metadata_file)
       IN  /\ index' = loaded.index
           /\ metadata' = loaded.metadata
           /\ call' = IF loaded.raised THEN Raised("construct", "LoadError")
                      ELSE Returned("construct")
           /\ pc' = IF loaded.raised THEN "down" ELSE "idle"
    /\ UNCHANGED <<index_file, metadata_file, batch, add_raised>>
    /\ UNCHANGED answer_vars

(***************************************************************************)
(* A call of search on the store, with the k values answer_query uses.     *)
(***************************************************************************)
\* search runs and hands its list (or its exception) to the caller
SearchCall ==
    /\ pc = "idle" /\ qpc = "none"
    /\ \E query \in Queries, k \in {K_QA, K_TASK}, encode_ok \in BOOLEAN :
          call' = Searched(query, k, Search(index, metadata, query, k, encode_ok))
    /\ pc' = "searched"
    /\ UNCHANGED <<index, metadata, index_file, metadata_file, batch, add_raised>>
    /\ UNCHANGED answer_vars

\* the caller is done with the list
SearchReturn ==
    /\ pc = "searched"
    /\ pc' = "idle"
    /\ call' = IF call.err = "none" THEN Returned("search") ELSE Raised("search", call.err)
    /\ UNCHANGED <<index, metadata, index_file, metadata_file, batch, add_raised>>
    /\ UNCHANGED answer_vars

\* search called from a second thread of the caller while add_documents runs
\* in the first: neither method takes a lock, so the search reads self.index
\* and self.metadata as the add has left them so far.
ConcurrentSearch ==
    /\ pc \in {"index_add", "metadata_append", "write_index", "open_metadata", "dump_metadata"}
    /\ \E query \in Queries, k \in {K_QA, K_TASK} :
          call' = Searched(query, k, Search(index, metadata, query, k, TRUE))
    /\ UNCHANGED <<index, metadata, index_file, metadata_file, pc, batch, add_raised>>
    /\ UNCHANGED answer_vars

\* The steps of the store.
Next ==
    \/ AddEmpty
    \/ AddEncodeRaises
    \/ AddEncode
    \/ IndexAdd
    \/ MetadataAppend
    \/ WriteIndex
    \/ WriteIndexRaises
    \/ OpenMetadata
    \/ OpenMetadataRaises
    \/ DumpMetadata
    \/ DumpMetadataRaises
    \/ Crash
    \/ Damage
    \/ Construct
    \/ SearchCall
    \/ SearchReturn

(***************************************************************************)
(* RAGPipeline.answer_query(query, role, vector_store), step by step.  The *)
(* call runs while the store is between calls.                             *)
(***************************************************************************)
Called(name) == Append(aq.calls, name)

\* the call returns `result` to its caller
Returns(a, result) == [a EXCEPT !.returned = TRUE, !.result = result]

\* A variant of the except branch that hands back the sources computed
\* before the try.
ErrorExitWithSources(a) == Returns(a, AnswerResult(ERROR_MESSAGE, a.sources, 0))

\* A variant of the except branch that hands back the confidence local.
ErrorExitWithConfidence(a) == Returns(a, AnswerResult(ERROR_MESSAGE, <<>>, a.confidence))

\* the `except Exception` branch of answer_query
ErrorExit(a) == Returns(a, AnswerResult(ERROR_MESSAGE, <<>>, 0))

AnswerQuery ==
    /\ qpc = "none" /\ pc = "idle"
    /\ \E query \in Queries, role \in Roles :
          aq' = [NoQuery EXCEPT !.query = query, !.role = role]
    /\ qpc' = "Start"
    /\ UNCHANGED store_vars

\* k_docs = 5 if self._is_task_oriented(query) else 3
Classify ==
    /\ qpc = "Start"
    /\ aq' = [aq EXCEPT !.k_docs = KDocs(aq.query)]
    /\ qpc' = "Classified"
    /\ UNCHANGED store_vars

\* A variant that never takes the early return.
NoDocsNever(retrieved_docs) == FALSE

\* `if not retrieved_docs`
NoDocs(retrieved_docs) == retrieved_docs = <<>>

\* retrieved_docs = vector_store.search(query, k=k_docs), outside the try
Retrieve ==
    /\ qpc = "Classified"
    /\ \E encode_ok \in BOOLEAN :
          LET r == Search(index, metadata, aq.query, aq.k_docs, encode_ok)
              a == [aq EXCEPT !.calls = IF r.encoded THEN Called("encode") ELSE aq.calls]
          IN  IF r.err # "none"
              THEN /\ aq' = [a EXCEPT !.raised = r.err]
                   /\ qpc' = "Done"
              ELSE IF NoDocs(r.docs)
              THEN /\ aq' = Returns(a, AnswerResult(NO_INFORMATION, <<>>, 0))
                   /\ qpc' = "Done"
              ELSE /\ aq' = [a EXCEPT !.docs = r.docs,
                                      !.context = Context(r.docs),
                                      !.sources = Sources(r.docs)]
                   /\ qpc' = "Retrieved"
    /\ UNCHANGED store_vars

\* `if self._is_task_oriented(query)`: the generator performs the task
TaskGenerate ==
    /\ qpc = "Retrieved"
    /\ IsTaskOriented(aq.query)
    /\ \E text \in GeneratedTexts :
          aq' = [aq EXCEPT !.prompt = "task", !.final_answer = text,
                           !.confidence = TASK_CONFIDENCE, !.calls = Called("enhancer")]
    /\ qpc' = "TaskAnswered"
    /\ UNCHANGED store_vars

TaskGenerateRaises ==
    /\ qpc = "Retrieved"
    /\ IsTaskOriented(aq.query)
    /\ aq' = ErrorExit([aq EXCEPT !.prompt = "task", !.calls = Called("enhancer"),
                                !.failed = "enhancer"])
    /\ qpc' = "Done"
    /\ UNCHANGED store_vars

\* else: result = self.qa_pipeline(qa_input); the answer is a span of the context
Extract ==
    /\ qpc = "Retrieved"
    /\ ~IsTaskOriented(aq.query)
    /\ \E score \in Scores, n \in 1..Len(aq.docs) :
          aq' = [aq EXCEPT !.raw_answer = aq.docs[n].content, !.confidence = score,
                           !.qa_score = score, !.calls = Called("qa")]
    /\ qpc' = "Extracted"
    /\ UNCHANGED store_vars

ExtractRaises ==
    /\ qpc = "Retrieved"
    /\ ~IsTaskOriented(aq.query)
    /\ aq' = ErrorExit([aq EXCEPT !.calls = Called("qa"), !.failed = "qa"])
    /\ qpc' = "Done"
    /\ UNCHANGED store_vars

\* `if confidence < 0.15: return <low-confidence message>, sources, confidence`
LowConfidenceStop ==
    /\ qpc = "Extracted"
    /\ BelowGate(aq.confidence)
    /\ aq' = Returns(aq, AnswerResult(LOW_CONFIDENCE, aq.sources, aq.confidence))
    /\ qpc' = "LowConfidenceStop"
    /\ UNCHANGED store_vars

\* ner_results = self.ner_pipeline(context), filtered by the role's entity types
TagEntities ==
    /\ qpc = "Extracted"
    /\ ~BelowGate(aq.confidence)
    /\ \E ner_results \in NerOutputs :
          \E listed \in Enumerations(RoleEntities(ner_results, aq.role)) :
              aq' = [aq EXCEPT !.ner_results = ner_results,
                               !.key_entities = KeyEntitiesStr(listed),
                               !.calls = Called("ner")]
    /\ qpc' = "Tagged"
    /\ UNCHANGED store_vars

TagEntitiesRaises ==
    /\ qpc = "Extracted"
    /\ ~BelowGate(aq.confidence)
    /\ aq' = ErrorExit([aq EXCEPT !.calls = Called("ner"), !.failed = "ner"])
    /\ qpc' = "Done"
    /\ UNCHANGED store_vars

\* generated_text = self.enhancer_pipeline(prompt, max_length=256, ...)
Enhance ==
    /\ qpc = "Tagged"
    /\ \E text \in GeneratedTexts :
          aq' = [aq EXCEPT !.prompt = "polish", !.final_answer = text,
                           !.calls = Called("enhancer")]
    /\ qpc' = "Enhanced"
    /\ UNCHANGED store_vars

\* A variant whose failed rewrite goes back to the extraction.
EnhanceRaisesRetries ==
    /\ qpc = "Tagged"
    /\ aq' = [aq EXCEPT !.prompt = "polish", !.calls = Called("enhancer")]
    /\ qpc' = "Retrieved"
    /\ UNCHANGED store_vars

EnhanceRaises ==
    /\ qpc = "Tagged"
    /\ aq' = ErrorExit([aq EXCEPT !.prompt = "polish", !.calls = Called("enhancer"),
                                !.failed = "enhancer"])
    /\ qpc' = "Done"
    /\ UNCHANGED store_vars

\* `return final_answer, sources, confidence`, or the return taken at the gate
Finish ==
    /\ qpc \in {"TaskAnswered", "Enhanced", "LowConfidenceStop"}
    /\ aq' = IF qpc = "LowConfidenceStop" THEN aq
             ELSE Returns(aq, AnswerResult(aq.final_answer, aq.sources, aq.confidence))
    /\ qpc' = "Done"
    /\ UNCHANGED store_vars

\* the caller has the answer (or the exception); the call's locals are gone
Respond ==
    /\ qpc = "Done"
    /\ qpc' = "none"
    /\ aq' = NoQuery
    /\ UNCHANGED store_vars

\* Spec: the life of one store (Next): its calls, the failures of its
\* writes, crashes, damage to its files and constructions.
Spec == Init /\ [][Next]_vars

\* answer_query over the stores that uploads build, none of the uploads
\* failing: one handler at a time.
AnswerNext ==
    \/ AddEmpty
    \/ AddEncode
    \/ IndexAdd
    \/ MetadataAppend
    \/ WriteIndex
    \/ OpenMetadata
    \/ DumpMetadata
    \/ AnswerQuery
    \/ Classify
    \/ Retrieve
    \/ TaskGenerate
    \/ TaskGenerateRaises
    \/ Extract
    \/ ExtractRaises
    \/ LowConfidenceStop
    \/ TagEntities
    \/ TagEntitiesRaises
    \/ Enhance
    \/ EnhanceRaises
    \/ Finish
    \/ Respond

AnswerSpec == Init /\ [][AnswerNext]_vars

\* The statements of one answer_query call: each is straight-line code or a
\* capability call, which returns or raises.
QueryStep ==
    \/ Classify
    \/ Retrieve
    \/ TaskGenerate
    \/ TaskGenerateRaises
    \/ Extract
    \/ ExtractRaises
    \/ LowConfidenceStop
    \/ TagEntities
    \/ TagEntitiesRaises
    \/ Enhance
    \/ EnhanceRaises
    \/ Finish

\* AnswerSpec with every started call running on: a call that can take a
\* step eventually takes one.
AnswerLiveSpec == Init /\ [][AnswerNext]_vars /\ WF_vars(QueryStep)

\* One store shared by two threads of its caller, one uploading and one
\* searching, none of the uploads failing.
ThreadedNext ==
    \/ AddEmpty
    \/ AddEncode
    \/ IndexAdd
    \/ MetadataAppend
    \/ WriteIndex
    \/ OpenMetadata
    \/ DumpMetadata
    \/ SearchCall
    \/ SearchReturn
    \/ ConcurrentSearch

ThreadedSpec == Init /\ [][ThreadedNext]_vars

(***************************************************************************)
(* Properties of the VectorStore, checked under Spec.                      *)
(***************************************************************************)
\* What a VectorStore constructed now on the directory would hold.
Reloaded == Load(index_file, metadata_file)

\* C1: whenever the store is between calls, after adds that returned or
\* raised and after every construction from the persisted files, the index
\* holds as many vectors as the metadata has entries, and the n-th vector is
\* the embedding of the n-th entry's content.
C1_CoIndexed ==
    pc = "idle" =>
        /\ Len(index) = Len(metadata)
        /\ \A n \in 1..Len(index) : index[n] = Encode(metadata[n].content)

\* C2: a search that asks a store of n vectors for k > n > 0 neighbours
\* returns at most n entries and returns no stored chunk twice (stated for
\* the stores none of whose adds has raised).
C2_OnlyValidSlots ==
    (/\ pc = "searched" /\ call.err = "none"
     /\ ~add_raised
     /\ 0 < Len(index) /\ Len(index) < call.search.k) =>
        /\ Len(call.search.docs) <= Len(index)
        /\ \A a, b \in 1..Len(call.search.docs) : a # b => call.search.docs[a] # call.search.docs[b]

\* C3: at every point, also in the middle of _save, the two files are of
\* the same version: a construction from them never finds an index file and
\* a metadata file that are both readable and of different lengths.
C3_PersistedAllOrNothing ==
    (index_file.ok /\ metadata_file.ok) => Len(index_file.data) = Len(metadata_file.data)

\* C4: a construction that finds both files readable and of different
\* lengths discards both: the store starts empty.
C4_MismatchDiscarded ==
    (/\ call = Returned("construct")
     /\ index_file.ok /\ metadata_file.ok
     /\ Len(index_file.data) # Len(metadata_file.data))
        => (index = <<>> /\ metadata = <<>>)

\* C5: construction never raises, whatever the two files are: it ends with
\* the persisted corpus loaded (both files readable) or with an empty index
\* and empty metadata; an unreadable metadata file beside a readable index
\* file leaves both empty.
C5_LoadFallsBack ==
    (call.op = "construct" /\ call.done) =>
        /\ call.err = "none"
        /\ pc = "idle"
        /\ IF index_file.ok /\ metadata_file.ok
           THEN index = index_file.data /\ metadata = metadata_file.data
           ELSE index = <<>> /\ metadata = <<>>

C5_Witness ==
    /\ call = Returned("construct")
    /\ index_file.ok /\ Len(index_file.data) > 0
    /\ metadata_file.exists /\ ~metadata_file.ok
    /\ index = <<>> /\ metadata = <<>>

\* C6: a search on a store with zero vectors returns the empty list, does
\* not call the embedding capability and does not raise.
C6_EmptySearch ==
    (pc = "searched" /\ Len(index) = 0) =>
        /\ call.search.docs = <<>>
        /\ ~call.search.encoded
        /\ call.err = "none"

C6_Witness ==
    pc = "searched" /\ Len(index) = 0 /\ call.search.k = K_TASK /\ call.search.docs = <<>>

\* C7: a step in which add_documents raises because the embedding failed
\* changes neither the index, nor the metadata, nor either file.
C7_BatchAtomic ==
    [][call' = Raised("add", "EmbeddingError") =>
          /\ index' = index
          /\ metadata' = metadata
          /\ index_file' = index_file
          /\ metadata_file' = metadata_file]_vars

C7_Witness ==
    /\ call = Raised("add", "EmbeddingError")
    /\ Len(index) > 0
    /\ Len(index) = Len(metadata)

\* C8: while every add_documents call on the instance has returned
\* normally, a VectorStore constructed on the same directory answers every
\* query, for both k, with the same ranked list as the instance itself.
C8_RoundTrip ==
    (pc = "idle" /\ ~add_raised) =>
        \A query \in Queries, k \in {K_QA, K_TASK} :
            Search(Reloaded.index, Reloaded.metadata, query, k, TRUE)
                = Search(index, metadata, query, k, TRUE)

C8_Witness ==
    /\ pc = "idle" /\ ~add_raised
    /\ call = Returned("add")
    /\ Len(index) = 3 /\ Len(metadata) = 3
    /\ index[1] # index[2]
    /\ Reloaded.metadata = metadata


(***************************************************************************)
(* Properties of answer_query, checked under AnswerSpec.                   *)
(***************************************************************************)
HasCalled(name) == \E n \in 1..Len(aq.calls) : aq.calls[n] = name

\* the extraction capability has returned an answer and a score
HasExtracted == aq.raw_answer # <<>>

\* C9: once the extraction has returned and the call has moved on, a
\* confidence below 0.15 means the call returns the low-confidence message
\* with the sources computed before and the extraction's confidence, and has
\* called neither the tagger nor the generator; a confidence of 0.15 or more
\* means the call never takes that exit and calls the tagger, and calls the
\* generator before any answer other than the error message.
C9_ConfidenceGate ==
    (HasExtracted /\ qpc # "Extracted") =>
        IF aq.confidence < CONFIDENCE_GATE
        THEN /\ qpc \in {"LowConfidenceStop", "Done"}
             /\ aq.returned
             /\ aq.result = AnswerResult(LOW_CONFIDENCE, aq.sources, aq.confidence)
             /\ ~HasCalled("ner") /\ ~HasCalled("enhancer")
        ELSE /\ qpc \in {"Tagged", "Enhanced", "Done"}
             /\ HasCalled("ner")
             /\ aq.result.text # LOW_CONFIDENCE
             /\ (qpc = "Enhanced" \/ (qpc = "Done" /\ aq.result.text # ERROR_MESSAGE))
                    => aq.calls = <<"encode", "qa", "ner", "enhancer">>

C9_Witness ==
    /\ qpc = "Done"
    /\ aq.confidence = 14
    /\ aq.result = AnswerResult(LOW_CONFIDENCE, aq.sources, 14)
    /\ Len(aq.sources) >= 2
    /\ aq.calls = <<"encode", "qa">>

\* the query, in lower case, holds one of the task keywords at some offset
C10_HasKeyword(query) ==
    \E n \in 1..Len(TASK_KEYWORDS) :
        \E off \in 0..(Len(query) - Len(TASK_KEYWORDS[n])) :
            \A i \in 1..Len(TASK_KEYWORDS[n]) : LowerChar(query[off + i]) = TASK_KEYWORDS[n][i]

\* C10: a query that holds a task keyword, in any case, is searched with
\* k = 5 and takes the task branch: the extraction and the tagger are never
\* called for it; any other query is searched with k = 3 and never takes the
\* task branch, and its answers come from the extraction.
C10_ClassificationConsistent ==
    qpc \notin {"none", "Start"} =>
        IF C10_HasKeyword(aq.query)
        THEN /\ aq.k_docs = 5
             /\ ~HasCalled("qa") /\ ~HasCalled("ner")
             /\ qpc \notin {"Extracted", "LowConfidenceStop", "Tagged", "Enhanced"}
             /\ HasCalled("enhancer") => aq.prompt = "task"
        ELSE /\ aq.k_docs = 3
             /\ qpc # "TaskAnswered"
             /\ aq.prompt # "task"
             /\ HasCalled("enhancer") => (HasCalled("qa") /\ HasCalled("ner"))

C10_Witness ==
    /\ qpc = "TaskAnswered"
    /\ aq.query = QStylist
    /\ aq.k_docs = 5
    /\ aq.calls = <<"encode", "enhancer">>

\* C11: when the extraction, the tagger or the generator raises, in the task
\* branch or in the Q&A branch, answer_query returns the fixed error message
\* with no sources and confidence 0.0, and raises nothing to its caller.
C11_FailureContained ==
    aq.failed # "none" =>
        /\ qpc = "Done"
        /\ aq.returned
        /\ aq.raised = "none"
        /\ aq.result = AnswerResult(ERROR_MESSAGE, <<>>, 0)

C11_Witness ==
    /\ aq.failed = "enhancer"
    /\ aq.prompt = "polish"
    /\ aq.sources # <<>>
    /\ aq.result = AnswerResult(ERROR_MESSAGE, <<>>, 0)

\* C12: every answer_query call that ends has returned a result (text,
\* sources, confidence) and has raised nothing, also when the embedding of
\* the query fails inside store.search.
C12_EveryFailureReturns ==
    qpc = "Done" => (aq.returned /\ aq.raised = "none")

\* the call has returned on the task, low-confidence or enhanced exit
C13_AnsweredExit ==
    /\ qpc = "Done" /\ aq.returned
    /\ aq.result.text \notin {ERROR_MESSAGE, NO_INFORMATION}

\* C13: on the task, low-confidence and enhanced exits the sources returned
\* are the distinct source labels of the retrieved chunks, each once, in
\* ascending order, whatever the rank order of the chunks.
C13_SourceAggregation ==
    C13_AnsweredExit =>
        LET out == aq.result.sources
        IN  /\ aq.docs # <<>>
            /\ {out[i] : i \in 1..Len(out)} = {aq.docs[i].source : i \in 1..Len(aq.docs)}
            /\ \A i, j \in 1..Len(out) : i < j => StrLess(out[i], out[j])

C13_Witness ==
    /\ C13_AnsweredExit
    /\ Len(aq.docs) = 3
    /\ Len(aq.result.sources) = 2
    /\ aq.docs[1].source = aq.result.sources[2]

\* how many times `needle` occurs in `hay`
C14_Occurrences(hay, needle) ==
    Cardinality({off \in 0..(Len(hay) - Len(needle)) :
                    SubSeq(hay, off + 1, off + Len(needle)) = needle})

\* the tagged entities whose type the role's entry of the mapping lists
C14_Passing ==
    {n \in 1..Len(aq.ner_results) :
        aq.ner_results[n].entity_group \in ROLE_ENTITY_MAPPING(aq.role)}

\* C14: once the tagger has returned, the key-entities text holds
\* "text (type)" of a tagged entity exactly when its type is listed for the
\* role, holds it once, holds nothing else, and is "None provided" exactly
\* when no tagged entity passes (in particular for a role not in the map).
C14_RoleFiltering ==
    qpc \in {"Tagged", "Enhanced"} =>
        LET str == aq.key_entities
            label(n) == <<aq.ner_results[n].word, " (", aq.ner_results[n].entity_group, ")">>
            distinct == Cardinality({label(n) : n \in C14_Passing})
        IN  /\ \A n \in 1..Len(aq.ner_results) :
                  /\ Contains(str, label(n)) <=> n \in C14_Passing
                  /\ C14_Occurrences(str, label(n)) <= 1
            /\ (str = <<"None provided">>) <=> (C14_Passing = {})
            /\ C14_Passing # {} => Len(str) = 5 * distinct - 1

C14_Witness ==
    /\ qpc = "Tagged"
    /\ aq.role = "Product Lead"
    /\ aq.ner_results = <<Acme, JohnDoe>>
    /\ aq.key_entities = <<"Acme Corp", " (", "ORG", ")">>

\* C15: every search runs on a store whose index and metadata have the same
\* length: none runs between the steps of an add_documents call, where the
\* index holds the batch and the metadata does not.
C15_NoTornRead ==
    [][(call'.op = "search" /\ call' # call) => Len(index) = Len(metadata)]_vars

\* C16: when store.search has returned an empty list, answer_query is done:
\* it has returned the no-information message with no sources and
\* confidence 0.0, and has called neither the extraction, nor the tagger,
\* nor the generator, whether the query is a task or a question.
C16_EmptyRetrieval ==
    (qpc \notin {"none", "Start", "Classified"} /\ aq.raised = "none" /\ aq.docs = <<>>) =>
        /\ qpc = "Done"
        /\ aq.returned
        /\ aq.result = AnswerResult(NO_INFORMATION, <<>>, 0)
        /\ ~HasCalled("qa") /\ ~HasCalled("ner") /\ ~HasCalled("enhancer")

C16_Witness ==
    /\ qpc = "Done"
    /\ aq.query = QSummarize /\ aq.k_docs = K_TASK
    /\ aq.docs = <<>>
    /\ aq.result = AnswerResult(NO_INFORMATION, <<>>, 0)
    /\ aq.calls = <<>>

\* C17: the confidence of a returned answer is fixed by the exit: 0.0 with
\* the no-information and the error message, 0.95 on the task exit, the
\* score the extraction returned on the low-confidence and enhanced exits;
\* with extraction scores in [0, 1] it is always in [0, 1].
C17_ConfidenceByExit ==
    aq.returned =>
        LET text == aq.result.text
            confidence == aq.result.confidence
        IN  /\ text \in {NO_INFORMATION, ERROR_MESSAGE} => confidence = 0
            /\ text = LOW_CONFIDENCE => confidence = aq.qa_score
            /\ (text \in GeneratedTexts /\ aq.prompt = "task") => confidence = 95
            /\ (text \in GeneratedTexts /\ aq.prompt = "polish") => confidence = aq.qa_score
            /\ text \in {NO_INFORMATION, ERROR_MESSAGE, LOW_CONFIDENCE} \cup GeneratedTexts
            /\ 0 <= confidence /\ confidence <= 100

C17_Witness ==
    /\ qpc = "Done" /\ aq.returned
    /\ aq.prompt = "polish"
    /\ aq.qa_score = 16
    /\ aq.result = AnswerResult("generated text", aq.sources, 16)

\* how far along the per-query machine a position is
C18_Rank(p) ==
    CASE p = "none"              -> 0
      [] p = "Start"             -> 1
      [] p = "Classified"        -> 2
      [] p = "Retrieved"         -> 3
      [] p = "TaskAnswered"      -> 4
      [] p = "Extracted"         -> 4
      [] p = "LowConfidenceStop" -> 5
      [] p = "Tagged"            -> 5
      [] p = "Enhanced"          -> 6
      [] p = "Done"              -> 7

\* the moves of the machine: the path of the specification, the position
\* between tagging and rewrite, and the exits to Done
C18_Moves ==
    {<<"Start", "Classified">>, <<"Classified", "Retrieved">>,
     <<"Retrieved", "TaskAnswered">>, <<"Retrieved", "Extracted">>,
     <<"Extracted", "LowConfidenceStop">>, <<"Extracted", "Tagged">>,
     <<"Tagged", "Enhanced">>,
     <<"TaskAnswered", "Done">>, <<"LowConfidenceStop", "Done">>, <<"Enhanced", "Done">>,
     <<"Classified", "Done">>, <<"Retrieved", "Done">>, <<"Extracted", "Done">>,
     <<"Tagged", "Done">>}

\* seq lists some of the elements of `order`, each at most once, in order
C18_InOrder(seq, order) ==
    \E pos \in [1..Len(seq) -> 1..Len(order)] :
        /\ \A i \in 1..Len(seq) : seq[i] = order[pos[i]]
        /\ \A i, j \in 1..Len(seq) : i < j => pos[i] < pos[j]

\* C18: a call moves only along Start, Classified, Retrieved, then
\* TaskAnswered or Extracted and LowConfidenceStop or Enhanced, to Done, never
\* back to a position it has left; it calls the extraction, the tagger and
\* the generator at most once each, in that order; and every call that has
\* started reaches Done.
C18_StateMachine ==
    /\ [][(qpc' # qpc /\ qpc # "none" /\ qpc' # "none") =>
              /\ <<qpc, qpc'>> \in C18_Moves
              /\ C18_Rank(qpc') > C18_Rank(qpc)]_vars
    /\ [](C18_InOrder(aq.calls, <<"encode", "qa", "ner", "enhancer">>))
    /\ (qpc = "Start" ~> qpc = "Done")

C18_Witness ==
    /\ qpc = "Done" /\ aq.returned
    /\ aq.calls = <<"encode", "qa", "ner", "enhancer">>
    /\ aq.result.text \in GeneratedTexts

\* "<sourceId>_chunk_<n>" for a slot n below 10
C19_Label(sourceId, n) ==
    sourceId \o <<"_", "c", "h", "u", "n", "k", "_">>
             \o <<(<<"0", "1", "2", "3", "4", "5", "6", "7", "8", "9">>)[n + 1]>>

\* C19: with every add_documents call successful, an add labels the entry
\* it stores in slot n (counted from 0 over the whole store) with
\* "<sourceId>_chunk_<n>" for the id it was called with, and leaves the
\* entries stored before as they were; so the entry in slot n always ends in
\* _chunk_<n>, and no two entries of a store carry the same label.
C19_SourceLabelling ==
    /\ [][metadata' # metadata =>
              /\ Len(metadata') = Len(metadata) + Len(batch.chunks)
              /\ SubSeq(metadata', 1, Len(metadata)) = metadata
              /\ \A n \in Len(metadata)..(Len(metadata') - 1) :
                    /\ metadata'[n + 1].source = C19_Label(batch.filename, n)
                    /\ metadata'[n + 1].content = batch.chunks[n - Len(metadata) + 1]
                    /\ index'[n + 1] = Encode(metadata'[n + 1].content)]_vars
    /\ [](\A n \in 0..(Len(metadata) - 1) :
              \E sourceId \in Filenames : metadata[n + 1].source = C19_Label(sourceId, n))
    /\ [](\A a, b \in 1..Len(metadata) : a # b => metadata[a].source # metadata[b].source)

C19_Witness ==
    /\ pc = "idle" /\ call = Returned("add")
    /\ Len(metadata) = 3
    /\ metadata[1].source = C19_Label(Doc1, 0)
    /\ metadata[2].source = C19_Label(Doc2, 1)
    /\ metadata[3].source = C19_Label(Doc2, 2)

\* C20: a step in which add_documents raises out of _save leaves the index
\* and the metadata as they were when the call started, without the vectors
\* and the entries of its batch.
C20_FailedSaveRollsBack ==
    [][call' = Raised("add", "PersistenceError") =>
          /\ index' = SubSeq(index, 1, Len(index) - Len(batch.chunks))
          /\ metadata' = SubSeq(metadata, 1, Len(metadata) - Len(batch.chunks))]_vars

====
